---- MODULE Spec2Model ----
(***************************************************************************)
(* Model of score.py, the scoring script of the foundation-model-inference *)
(* environment: the content-safety chunker (CsChunkingUtils), the severity *)
(* analyzer (analyze_response, analyze_text), the structural redactor      *)
(* (iterate), the moderation gate (get_safe_input, get_safe_response), the *)
(* request normalizer (get_request_data and the chat formatting) and the   *)
(* request handler run.                                                    *)
(*                                                                         *)
(* Python strings are sequences of one-character strings, so that split,   *)
(* strip, slicing, substring tests and concatenation are computed.  Python *)
(* values that travel through the redactor are tagged records (Str, Num,   *)
(* PyNone, List, Dict).                                                    *)
(***************************************************************************)
EXTENDS Integers, Sequences, FiniteSets, TLC

VARIABLES
    pc,                \* position of the process / of the operation under check
    g_aacs_client,     \* score.py:34   the classifier client, or NoClient
    g_aacs_threshold,  \* score.py:33   the severity threshold
    task_type,         \* score.py:52   the active task
    g_fmscorer,        \* score.py:53   the generation engine wrapper
    data,              \* the argument of the operation
    ret,               \* what the operation returned (or that it raised)
    trace              \* the calls to collaborators made by the operation, in order

vars == <<pc, g_aacs_client, g_aacs_threshold, task_type, g_fmscorer, data, ret, trace>>

globals == <<g_aacs_client, g_aacs_threshold, task_type, g_fmscorer>>

-----------------------------------------------------------------------------
(* Bounds of the model.                                                    *)

\* longest input string given to the chunker
MaxTextLen == 5
\* largest chunk size (chunking_n) the chunker is constructed with
MaxChunkN == 3
\* largest severity the classifier reports for a category
MaxSeverity == 3
\* longest of the short texts given to analyze_text
MaxAnalyzeLen == 3
\* most children of a mapping or sequence given to the redactor
MaxWidth == 2
\* most levels of one-element containers wrapped around a value
MaxNest == 2
\* most (user, assistant) pairs of a well-formed dialog
MaxPairs == 2
\* most turns of a dialog of arbitrary roles
MaxTurns == 3
\* the largest number of entries of a parameter mapping
MaxParams == 3

-----------------------------------------------------------------------------
(* Strings.                                                                *)

Min(a, b) == IF a <= b THEN a ELSE b
Max(a, b) == IF a >= b THEN a ELSE b

\* max() of a non-empty sequence of integers
RECURSIVE MaxOfSeq(_)
MaxOfSeq(q) == IF Len(q) = 1 THEN q[1] ELSE Max(q[1], MaxOfSeq(Tail(q)))

\* "".join(parts)
RECURSIVE Concat(_)
Concat(parts) == IF parts = <<>> THEN <<>> ELSE parts[1] \o Concat(Tail(parts))

\* all strings over alphabet of length at most n
RECURSIVE StringsUpTo(_, _)
StringsUpTo(alphabet, n) ==
    IF n = 0 THEN {<<>>}
    ELSE LET shorter == StringsUpTo(alphabet, n - 1)
         IN  shorter \cup {Append(s, c) : s \in shorter, c \in alphabet}

\* str.split(delimiter) for a one-character delimiter: the pieces between the
\* occurrences of the delimiter, empty pieces included
str_split(s, delimiter) ==
    LET cuts == {0} \cup {i \in 1..Len(s) : s[i] = delimiter} \cup {Len(s) + 1}
        cut(k) == CHOOSE c \in cuts : Cardinality({b \in cuts : b < c}) = k - 1
    IN  [k \in 1..(Cardinality(cuts) - 1) |-> SubSeq(s, cut(k) + 1, cut(k + 1) - 1)]

-----------------------------------------------------------------------------
(* CsChunkingUtils (score.py:62-96).                                       *)

\* a mutant of chunkstring: the slice end is off by one, slices overlap
chunkstring_off_by_one(string, length) ==
    [k \in 1..((Len(string) + length - 1) \div length) |->
        SubSeq(string, (k - 1) * length + 1, Min(k * length + 1, Len(string)))]

\* string[0+i : length+i] for i in range(0, len(string), length)
chunkstring(string, length) ==
    [k \in 1..((Len(string) + length - 1) \div length) |->
        SubSeq(string, (k - 1) * length + 1, Min(k * length, Len(string)))]

\* [e + delimiter for e in input.split(delimiter) if e]
split_pieces(input, delimiter) ==
    LET parts == str_split(input, delimiter)
    IN  [k \in 1..Len(SelectSeq(parts, LAMBDA e : e # <<>>)) |->
            Append(SelectSeq(parts, LAMBDA e : e # <<>>)[k], delimiter)]

\* the loop of split_by from piece k on, with the chunks emitted so far (ret_)
\* and the buffer
RECURSIVE split_loop(_, _, _, _, _)
split_loop(split, k, max_n, ret_, buffer) ==
    IF k > Len(split) THEN
        IF Len(buffer) > 0 THEN Append(ret_, buffer) ELSE ret_
    ELSE LET i == split[k] IN
        IF Len(i) > max_n THEN
            split_loop(split, k + 1, max_n,
                       Append(ret_, buffer) \o chunkstring(i, max_n), <<>>)
        ELSE IF Len(buffer) + Len(i) <= max_n THEN
            split_loop(split, k + 1, max_n, ret_, buffer \o i)
        ELSE
            split_loop(split, k + 1, max_n, Append(ret_, buffer), i)

split_by(input, chunking_n, delimiter) ==
    split_loop(split_pieces(input, delimiter), 1, chunking_n, <<>>, <<>>)

-----------------------------------------------------------------------------
(* The severity analyzer (score.py:99-136).                                *)

\* a category result of the classifier's response that is None
NoResult == [none |-> TRUE]
CategoryResults == {NoResult} \cup [severity : 0..MaxSeverity]

\* the classifier's answer to one analyze_text call: a response with its four
\* category results, or the call raising
ServiceError == [raise |-> "HttpResponseError"]
Responses ==
    [hate_result : CategoryResults, self_harm_result : CategoryResults,
     sexual_result : CategoryResults, violence_result : CategoryResults]

analyze_response(response) ==
    LET s1 == IF response.hate_result # NoResult
              THEN Max(0, response.hate_result.severity) ELSE 0
        s2 == IF response.self_harm_result # NoResult
              THEN Max(s1, response.self_harm_result.severity) ELSE s1
        s3 == IF response.sexual_result # NoResult
              THEN Max(s2, response.sexual_result.severity) ELSE s2
        s4 == IF response.violence_result # NoResult
              THEN Max(s3, response.violence_result.severity) ELSE s3
    IN  s4

\* str.isspace() of one character, and str.strip()
IsSpace(c) == c \in {" ", "\n", "\t"}
str_strip(s) ==
    LET keep == {i \in 1..Len(s) : ~IsSpace(s[i])}
    IN  IF keep = {} THEN <<>>
        ELSE SubSeq(s, CHOOSE i \in keep : \A j \in keep : i <= j,
                       CHOOSE i \in keep : \A j \in keep : i >= j)

\* the chunk size and the delimiter analyze_text constructs its chunker with
CHUNKING_N == 1000
DELIMITER == "."

\* the result of a call: a value returned, or an exception raised; with the
\* classifier calls it made (the texts sent, in order)
Returned(value, calls) == [kind |-> "ok", value |-> value, calls |-> calls]
Raised(error, calls) == [kind |-> "raise", error |-> error, calls |-> calls]

\* the first classifier call that raises, 0 if none does
FirstError(answers, n) ==
    IF \E k \in 1..n : answers[k] = ServiceError
    THEN CHOOSE k \in 1..n : answers[k] = ServiceError
                              /\ \A j \in 1..(k - 1) : answers[j] # ServiceError
    ELSE 0

\* analyze_text(text), the classifier answering its successive calls with
\* answers[1], answers[2], ...
analyze_text(text, answers) ==
    IF text = <<>> \/ str_strip(text) = <<>> THEN Returned(0, <<>>)
    ELSE LET split_text == split_by(text, CHUNKING_N, DELIMITER)
             failed == FirstError(answers, Len(split_text))
             result == [k \in 1..Len(split_text) |-> analyze_response(answers[k])]
         IN  IF failed # 0 THEN Raised(<<"HttpResponseError">>, SubSeq(split_text, 1, failed))
             ELSE IF Len(split_text) = 0
                  THEN Raised(<<"max() arg is an empty sequence">>, <<>>)
                  ELSE Returned(MaxOfSeq(result), split_text)

\* how many classifier calls analyze_text(text) can make
analyze_text_calls(text) ==
    IF text = <<>> \/ str_strip(text) = <<>> THEN 0
    ELSE Len(split_by(text, CHUNKING_N, DELIMITER))

-----------------------------------------------------------------------------
(* Python values: str, int, None, bool, list (and one-dimensional          *)
(* np.ndarray), dict (its entries in insertion order), pd.DataFrame (its   *)
(* rows of cells).                                                         *)

Str(s) == [t |-> "str", s |-> s]
Num(n) == [t |-> "num", n |-> n]
Bool(b) == [t |-> "bool", b |-> b]
PyNone == [t |-> "None"]
List(items) == [t |-> "list", items |-> items]
Dict(entries) == [t |-> "dict", entries |-> entries]
\* a DataFrame: its column labels are the default positions ("range") or the
\* given names; its rows of cells
Frame(index, columns, rows) ==
    [t |-> "frame", index |-> index, columns |-> columns, rows |-> rows]
Entry(key, value) == [key |-> key, value |-> value]

\* a chat turn, {"role": role, "content": content}
Turn(role, content) ==
    Dict(<<Entry("role", Str(<<role>>)), Entry("content", Str(content))>>)

\* the classifier, answering each chunk by its text
classify(aacs, chunks) == [k \in 1..Len(chunks) |-> aacs[chunks[k]]]

\* the chunks analyze_text sends for a text
chunks_of(text) ==
    IF text = <<>> \/ str_strip(text) = <<>> THEN <<>>
    ELSE split_by(text, CHUNKING_N, DELIMITER)

-----------------------------------------------------------------------------
(* The structural redactor, iterate (score.py:139-167).                    *)

\* a mutant of iterate_str: a string at the threshold is redacted too
iterate_str_at_threshold(obj, aacs) ==
    LET a == analyze_text(obj.s, classify(aacs, chunks_of(obj.s)))
    IN  IF a.kind = "raise" THEN a
        ELSE IF a.value >= g_aacs_threshold
             THEN Returned([obj |-> Str(<<>>), severity |-> a.value], a.calls)
             ELSE Returned([obj |-> obj, severity |-> a.value], a.calls)

\* the str branch of iterate
iterate_str(obj, aacs) ==
    LET a == analyze_text(obj.s, classify(aacs, chunks_of(obj.s)))
    IN  IF a.kind = "raise" THEN a
        ELSE IF a.value > g_aacs_threshold
             THEN Returned([obj |-> Str(<<>>), severity |-> a.value], a.calls)
             ELSE Returned([obj |-> obj, severity |-> a.value], a.calls)

RECURSIVE iterate(_, _)

\* a mutant of iterate_children: the severity of the last child wins
RECURSIVE iterate_children_last(_, _, _, _, _, _)
iterate_children_last(children, k, aacs, done, severity, calls) ==
    IF k > Len(children)
    THEN Returned([objs |-> done, severity |-> severity], calls)
    ELSE LET r == iterate(children[k], aacs)
         IN  IF r.kind = "raise" THEN Raised(r.error, calls \o r.calls)
             ELSE iterate_children_last(children, k + 1, aacs,
                                        Append(done, r.value.obj),
                                        r.value.severity,
                                        calls \o r.calls)

\* the loops of iterate over the values of a dict, the items of a list, the
\* cells of a frame: child k on, with the redacted children so far (done), the
\* running maximum and the classifier calls so far
RECURSIVE iterate_children(_, _, _, _, _, _)
iterate_children(children, k, aacs, done, severity, calls) ==
    IF k > Len(children)
    THEN Returned([objs |-> done, severity |-> severity], calls)
    ELSE LET r == iterate(children[k], aacs)
         IN  IF r.kind = "raise" THEN Raised(r.error, calls \o r.calls)
             ELSE iterate_children(children, k + 1, aacs,
                                   Append(done, r.value.obj),
                                   Max(severity, r.value.severity),
                                   calls \o r.calls)

\* the immediate children of a composite, in the order iterate visits them
children_of(obj) ==
    IF obj.t = "dict" THEN [k \in 1..Len(obj.entries) |-> obj.entries[k].value]
    ELSE IF obj.t = "list" THEN obj.items
    ELSE IF obj.t = "frame" THEN Concat(obj.rows)
    ELSE <<>>

\* the composite with its children replaced, position by position
with_children(obj, objs) ==
    IF obj.t = "dict"
    THEN Dict([k \in 1..Len(obj.entries) |-> Entry(obj.entries[k].key, objs[k])])
    ELSE IF obj.t = "list" THEN List(objs)
    ELSE LET width == IF obj.rows = <<>> THEN 0 ELSE Len(obj.rows[1])
         IN  Frame(obj.index, obj.columns,
                   [i \in 1..Len(obj.rows) |->
                      [j \in 1..width |-> objs[(i - 1) * width + j]]])

iterate(obj, aacs) ==
    IF obj.t = "frame" /\ obj.index # "range" /\ children_of(obj) # <<>> THEN
        \* obj.at[i, j] looks the positions i, j up as labels
        Raised(<<"KeyError">>, <<>>)
    ELSE IF obj.t \in {"dict", "list", "frame"} THEN
        LET r == iterate_children(children_of(obj), 1, aacs, <<>>, 0, <<>>)
        IN  IF r.kind = "raise" THEN r
            ELSE Returned([obj |-> with_children(obj, r.value.objs),
                           severity |-> r.value.severity], r.calls)
    ELSE IF obj.t = "str" THEN iterate_str(obj, aacs)
    ELSE Returned([obj |-> obj, severity |-> 0], <<>>)

-----------------------------------------------------------------------------
(* The chat formatting, get_processed_input_data_for_chat_completion       *)
(* (score.py:226-306).                                                     *)

TAG_INST == <<"[", "I", "N", "S", "T", "]">>
TAG_INST_END == <<"[", "/", "I", "N", "S", "T", "]">>
TAG_SYS == <<"<", "<", "S", "Y", "S", ">", ">">>
TAG_SYS_END == <<"<", "<", "/", "S", "Y", "S", ">", ">">>
SPECIAL_TAGS == <<TAG_INST, TAG_INST_END, TAG_SYS, TAG_SYS_END>>
UNSAFE_ERROR == <<"Error: special tags are not allowed as part of the prompt.">>

\* tag in content, for two strings
Contains(content, tag) ==
    \E i \in 1..(Len(content) - Len(tag) + 1) :
        SubSeq(content, i, i + Len(tag) - 1) = tag

\* obj[key] for a str key: the value of a dict entry, KeyError for a dict
\* without the key, TypeError for a value that is no dict
subscript(obj, key) ==
    IF obj.t # "dict" THEN Raised(<<"TypeError">>, <<>>)
    ELSE IF \E k \in 1..Len(obj.entries) : obj.entries[k].key = key
         THEN Returned(obj.entries[CHOOSE k \in 1..Len(obj.entries) :
                                       obj.entries[k].key = key].value, <<>>)
         ELSE Raised(<<"KeyError", key>>, <<>>)

\* tag in msg["content"] for one message: True/False, or what it raises
tag_in_content(msg, tag) ==
    LET content == subscript(msg, "content")
    IN  IF content.kind = "raise" THEN content
        ELSE IF content.value.t # "str" THEN Raised(<<"TypeError">>, <<>>)
        ELSE Returned(Contains(content.value.s, tag), <<>>)

\* a mutant of unsafe_request: the closing tags are not looked for
unsafe_request_open_tags(messages) ==
    LET tests == [p \in (1..Len(SPECIAL_TAGS)) \X (1..Len(messages)) |->
                     tag_in_content(messages[p[2]], SPECIAL_TAGS[p[1]])]
    IN  IF \E p \in DOMAIN tests : tests[p].kind = "raise"
        THEN tests[<<1, CHOOSE j \in 1..Len(messages) :
                          /\ tests[<<1, j>>].kind = "raise"
                          /\ \A h \in 1..(j - 1) : tests[<<1, h>>].kind = "ok">>]
        ELSE Returned(\E p \in DOMAIN tests : p[1] \in {1, 3} /\ tests[p].value, <<>>)

\* any([tag in msg["content"] for tag in SPECIAL_TAGS for msg in messages]):
\* the list is built first, so the first test that raises (they all read
\* msg["content"], so one of the first tag's) decides
unsafe_request(messages) ==
    LET tests == [p \in (1..Len(SPECIAL_TAGS)) \X (1..Len(messages)) |->
                     tag_in_content(messages[p[2]], SPECIAL_TAGS[p[1]])]
    IN  IF \E p \in DOMAIN tests : tests[p].kind = "raise"
        THEN tests[<<1, CHOOSE j \in 1..Len(messages) :
                          /\ tests[<<1, j>>].kind = "raise"
                          /\ \A h \in 1..(j - 1) : tests[<<1, h>>].kind = "ok">>]
        ELSE Returned(\E p \in DOMAIN tests : tests[p].value, <<>>)

\* the loop of process_dialog from message i on (i counts from 1)
RECURSIVE process_loop(_, _, _, _, _, _)
process_loop(messages, i, system_prompt, user_assistant_messages, user_message, last_user_message) ==
    IF i > Len(messages)
    THEN Returned([system_prompt |-> system_prompt,
                   user_assistant_messages |-> user_assistant_messages,
                   last_user_message |-> last_user_message], <<>>)
    ELSE LET role == subscript(messages[i], "role")
             content == subscript(messages[i], "content").value
         IN  IF role.kind = "raise" THEN role
             ELSE IF role.value = Str(<<"system">>) /\ i = 1 THEN
                 process_loop(messages, i + 1, content, user_assistant_messages,
                              user_message, last_user_message)
             ELSE IF role.value = Str(<<"user">>) THEN
                 IF i = Len(messages)
                 THEN process_loop(messages, i + 1, system_prompt,
                                   user_assistant_messages, user_message, content)
                 ELSE process_loop(messages, i + 1, system_prompt,
                                   user_assistant_messages, content, last_user_message)
             ELSE IF role.value = Str(<<"assistant">>) /\ user_message # PyNone THEN
                 process_loop(messages, i + 1, system_prompt,
                              Append(user_assistant_messages, <<user_message, content>>),
                              PyNone, last_user_message)
             ELSE process_loop(messages, i + 1, system_prompt,
                               user_assistant_messages, user_message, last_user_message)

\* process_dialog once the tags were looked for (score.py:264-282)
process_dialog_checked(messages, unsafe) ==
    IF unsafe.kind = "raise" THEN unsafe
    ELSE IF unsafe.value THEN Raised(UNSAFE_ERROR, <<>>)
    ELSE process_loop(messages, 1, Str(<<>>), <<>>, PyNone, PyNone)

process_dialog(messages) == process_dialog_checked(messages, unsafe_request(messages))

\* a mutant of history_text: the first user input is stripped like the others
history_text_strip_all(chat_history, k) ==
    chat_history[k][1].s \o <<" ">> \o TAG_INST_END \o <<" ">>
        \o str_strip(chat_history[k][2].s) \o <<" ", "<", "/", "s", ">", "<", "s", ">">>
        \o TAG_INST \o <<" ">>

\* the text format_chat_conv appends for the k-th (user_input, response)
history_text(chat_history, k) ==
    (IF k > 1 THEN str_strip(chat_history[k][1].s) ELSE chat_history[k][1].s)
        \o <<" ">> \o TAG_INST_END \o <<" ">>
        \o str_strip(chat_history[k][2].s) \o <<" ", "<", "/", "s", ">", "<", "s", ">">>
        \o TAG_INST \o <<" ">>

format_chat_conv(message, chat_history, system_prompt) ==
    LET texts == IF system_prompt # Str(<<>>)
                 THEN <<"<", "s", ">">> \o TAG_INST \o <<" ">> \o TAG_SYS \o <<"\n">>
                      \o system_prompt.s \o <<"\n">> \o TAG_SYS_END \o <<"\n", "\n">>
                 ELSE <<"<", "s", ">">> \o TAG_INST \o <<" ">>
        do_strip == Len(chat_history) > 0
        history == Concat([k \in 1..Len(chat_history) |-> history_text(chat_history, k)])
    IN  IF message = PyNone
        THEN IF do_strip
             THEN Raised(<<"AttributeError">>, <<>>)
             ELSE Returned(texts \o history \o <<"N", "o", "n", "e">>
                                 \o <<" ">> \o TAG_INST_END, <<>>)
        ELSE Returned(texts \o history
                            \o (IF do_strip THEN str_strip(message.s) ELSE message.s)
                            \o <<" ">> \o TAG_INST_END, <<>>)

\* score.py:304-306, processed being what process_dialog gave
format_processed(processed) ==
    IF processed.kind = "raise" THEN processed
    ELSE format_chat_conv(processed.value.last_user_message,
                          processed.value.user_assistant_messages,
                          processed.value.system_prompt)

get_processed_input_data_for_chat_completion(dialog) ==
    format_processed(process_dialog(dialog))

-----------------------------------------------------------------------------
(* The module-level state of score.py before init() ran.                   *)

NoClient == "None"
NoScorer == "None"
TEXT_GENERATION == "text-generation"
CHAT_COMPLETION == "chat-completion"
NoRet == [kind |-> "none"]

-----------------------------------------------------------------------------
(* The moderation gate (score.py:170-191).                                 *)

\* _get_jsonable_obj(result, pandas_orient="records"): a frame becomes the
\* list of its rows, each a dict by column name; a dict is returned as it is
get_jsonable_obj(result) ==
    IF result.t = "frame"
    THEN List([i \in 1..Len(result.rows) |->
                  Dict([j \in 1..Len(result.columns) |->
                           Entry(result.columns[j], result.rows[i][j])])])
    ELSE result

\* result, severity = iterate(jsonable_result); return result
redacted(r) == IF r.kind = "raise" THEN r ELSE Returned(r.value.obj, r.calls)

\* a mutant of get_safe_response: the client is not looked at
get_safe_response_always(result, aacs) ==
    redacted(iterate(get_jsonable_obj(result), aacs))

get_safe_response(result, aacs) ==
    IF g_aacs_client = NoClient THEN Returned(get_jsonable_obj(result), <<>>)
    ELSE redacted(iterate(get_jsonable_obj(result), aacs))

get_safe_input(input_data, aacs) ==
    IF g_aacs_client = NoClient
    THEN Returned([obj |-> input_data, severity |-> 0], <<>>)
    ELSE iterate(input_data, aacs)

-----------------------------------------------------------------------------
(* The request normalizer (score.py:309-370).                              *)

\* a request body that is no JSON document
Unparseable == [t |-> "unparseable"]

\* json.loads(request_string): the document of the request when the string
\* is still the request's text
json_loads(request_string, request) ==
    IF request_string # Str(request.raw) \/ request.body = Unparseable
    THEN Raised(<<"JSONDecodeError">>, <<>>)
    ELSE Returned(request.body, <<>>)

HasKey(obj, key) == \E k \in 1..Len(obj.entries) : obj.entries[k].key = key

EXPECTED_FORMAT == "Expected input format: ..."

\* the except clause of get_request_data: the exception it raises is the
\* json.dumps of the expected format and of str(e)
validation_error(r) ==
    IF r.kind = "raise"
    THEN Raised(<<"error", EXPECTED_FORMAT, "exception">> \o r.error, <<>>)
    ELSE r

\* obj.get(key, default) of a dict
dict_get(obj, key, default) ==
    IF HasKey(obj, key) THEN subscript(obj, key).value ELSE default

\* score.py:336-340, chat being the formatted dialog
get_request_data_chat(chat, params) ==
    IF chat.kind = "raise" THEN chat
    ELSE Returned([input_data |-> Str(chat.value), params |-> params], <<>>)

\* a mutant of get_request_data_query: parameters of any type are accepted
get_request_data_query_any_params(input_data, params) ==
    IF input_data.kind = "raise" THEN input_data
    ELSE IF input_data.value.t # "list" THEN Raised(<<"query is not a list">>, <<>>)
    ELSE IF task_type = CHAT_COMPLETION
    THEN get_request_data_chat(
             get_processed_input_data_for_chat_completion(input_data.value.items), params)
    ELSE Returned([input_data |-> input_data.value, params |-> params], <<>>)

\* score.py:330-340, input_data being inputs["input_string"]
get_request_data_query(input_data, params) ==
    IF input_data.kind = "raise" THEN input_data
    ELSE IF input_data.value.t # "list" THEN Raised(<<"query is not a list">>, <<>>)
    ELSE IF params.t # "dict" THEN Raised(<<"parameters is not a dict">>, <<>>)
    ELSE IF task_type = CHAT_COMPLETION
    THEN get_request_data_chat(
             get_processed_input_data_for_chat_completion(input_data.value.items), params)
    ELSE Returned([input_data |-> input_data.value, params |-> params], <<>>)

\* score.py:324-340, inputs being data.get("input_data", None)
get_request_data_inputs(inputs) ==
    IF inputs.t # "dict" THEN Raised(<<"Invalid input data">>, <<>>)
    ELSE get_request_data_query(subscript(inputs, "input_string"),
                                dict_get(inputs, "parameters", Dict(<<>>)))

\* score.py:319-340, loaded being what json.loads gave (data.get raises
\* AttributeError when the document is no mapping)
get_request_data_loaded(loaded) ==
    IF loaded.kind = "raise" THEN loaded
    ELSE IF loaded.value.t # "dict" THEN Raised(<<"AttributeError">>, <<>>)
    ELSE get_request_data_inputs(dict_get(loaded.value, "input_data", PyNone))

\* the try block of get_request_data
get_request_data_body(request_string, request) ==
    get_request_data_loaded(json_loads(request_string, request))

get_request_data(request_string, request) ==
    validation_error(get_request_data_body(request_string, request))

\* a mutant of get_generator_params: an existing max_new_tokens keeps its value
get_generator_params_keep_existing(params) ==
    Dict(SelectSeq(IF HasKey(params, "max_gen_len") /\ ~HasKey(params, "max_new_tokens")
                   THEN Append(params.entries,
                               Entry("max_new_tokens", subscript(params, "max_gen_len").value))
                   ELSE params.entries,
                   LAMBDA e : e.key # "max_gen_len"))

\* get_generator_params(params): max_gen_len renamed to max_new_tokens (an
\* existing max_new_tokens keeps its place and takes the value)
get_generator_params(params) ==
    IF HasKey(params, "max_gen_len") THEN
        LET v == subscript(params, "max_gen_len").value
            set == IF HasKey(params, "max_new_tokens")
                   THEN [k \in 1..Len(params.entries) |->
                            IF params.entries[k].key = "max_new_tokens"
                            THEN Entry("max_new_tokens", v) ELSE params.entries[k]]
                   ELSE Append(params.entries, Entry("max_new_tokens", v))
        IN  Dict(SelectSeq(set, LAMBDA e : e.key # "max_gen_len"))
    ELSE params

-----------------------------------------------------------------------------
(* The request handler, run (score.py:510-553).                            *)

\* what run gives back: {}, the JSON error payload, or the moderated response
EmptyResult == [kind |-> "empty"]
ErrorPayload(e) ==
    [kind |-> "error", error |-> "Error in processing request", exception |-> e]
Response(value) == [kind |-> "response", value |-> value]
Propagated(e) == [kind |-> "propagated", exception |-> e]

\* the entries of the trace
AacsCalls(calls, aacs) ==
    [k \in 1..Len(calls) |->
        [op |-> "g_aacs_client.analyze_text", text |-> calls[k], answer |-> aacs[calls[k]]]]
SafeInputEvent(arg, r) ==
    IF r.kind = "raise" THEN [op |-> "get_safe_input", arg |-> arg, raised |-> r.error]
    ELSE [op |-> "get_safe_input", arg |-> arg, result |-> r.value.obj,
          severity |-> r.value.severity]
RequestDataEvent(r) ==
    IF r.kind = "raise" THEN [op |-> "get_request_data", raised |-> r.error]
    ELSE [op |-> "get_request_data", query |-> r.value.input_data,
          params |-> r.value.params]
EngineEvent(prompts, params, engine) ==
    [op |-> "g_fmscorer.run", prompts |-> prompts, params |-> params,
     outcome |-> engine.kind]
CollectEvent(telemetry) ==
    [op |-> "g_collector.collect", outcome |-> IF telemetry THEN "ok" ELSE "raise"]
SafeResponseEvent(arg, r) ==
    IF r.kind = "raise" THEN [op |-> "get_safe_response", arg |-> arg, raised |-> r.error]
    ELSE [op |-> "get_safe_response", arg |-> arg, result |-> r.value]

\* the engine failing
EngineError == [kind |-> "raise"]
\* the engine returning one result per prompt, with these responses
EngineResults(responses) == [kind |-> "results", responses |-> responses]

\* the prompts run gives the engine
prompts_of(query) == IF task_type = CHAT_COMPLETION THEN <<query>> ELSE query.items

\* result_dict: {"output": outputs['0']} for chat-completion, the one-row
\* frame pd.DataFrame([outputs]) for text-generation, its columns "0", "1", ...
ColumnNames == <<"0", "1", "2", "3">>
result_dict_of(responses) ==
    IF task_type = CHAT_COMPLETION
    THEN Dict(<<Entry("output", Str(responses[1]))>>)
    ELSE Frame("names", SubSeq(ColumnNames, 1, Len(responses)),
               <<[k \in 1..Len(responses) |-> Str(responses[k])]>>)

\* the except clause of run
Caught(e, events) == [ret |-> ErrorPayload(e), trace |-> events]

\* the trace once the engine was called
engine_called(req, engine, events) ==
    Append(events, EngineEvent(prompts_of(req.input_data),
                               get_generator_params(req.params), engine))

\* return get_safe_response(result_dict) (score.py:549), safe being what
\* get_safe_response gave for arg
run_return(arg, safe, aacs, collected) ==
    IF safe.kind = "raise"
    THEN Caught(safe.error, collected \o AacsCalls(safe.calls, aacs)
                                      \o <<SafeResponseEvent(arg, safe)>>)
    ELSE [ret |-> Response(safe.value),
          trace |-> collected \o AacsCalls(safe.calls, aacs)
                              \o <<SafeResponseEvent(arg, safe)>>]

\* score.py:547-549: the statistics are collected, the response moderated
run_collect(result_dict, aacs, telemetry, called) ==
    IF ~telemetry
    THEN Caught(<<"collect">>, Append(called, CollectEvent(telemetry)))
    ELSE run_return(get_jsonable_obj(result_dict), get_safe_response(result_dict, aacs),
                    aacs, Append(called, CollectEvent(telemetry)))

\* a mutant of run_generate: a failing engine call is not caught
run_generate_uncaught(req, aacs, engine, telemetry, events) ==
    IF engine = EngineError
    THEN [ret |-> Propagated(<<"engine">>), trace |-> engine_called(req, engine, events)]
    ELSE run_collect(result_dict_of(engine.responses), aacs, telemetry,
                     engine_called(req, engine, events))

\* run from get_generator_params on (score.py:525-549): req is what
\* get_request_data returned, engine what the engine does (one result per
\* prompt, or its failure), telemetry whether collect succeeds
run_generate(req, aacs, engine, telemetry, events) ==
    IF engine = EngineError
    THEN Caught(<<"engine">>, engine_called(req, engine, events))
    ELSE run_collect(result_dict_of(engine.responses), aacs, telemetry,
                     engine_called(req, engine, events))

\* score.py:524-549, req being what get_request_data gave
run_parsed(req, aacs, engine, telemetry, checked) ==
    IF req.kind = "raise" THEN Caught(req.error, Append(checked, RequestDataEvent(req)))
    ELSE run_generate(req.value, aacs, engine, telemetry,
                      Append(checked, RequestDataEvent(req)))

\* the trace once the input was moderated
input_checked(request, aacs, safe) ==
    AacsCalls(safe.calls, aacs) \o <<SafeInputEvent(Str(request.raw), safe)>>

\* a mutant of run_moderated: the input severity is not compared with the
\* threshold
run_moderated_no_threshold(request, aacs, engine, telemetry, safe) ==
    IF safe.kind = "raise" THEN Caught(safe.error, input_checked(request, aacs, safe))
    ELSE run_parsed(get_request_data(safe.value.obj, request), aacs, engine, telemetry,
                    input_checked(request, aacs, safe))

\* score.py:517-549, safe being what get_safe_input gave
run_moderated(request, aacs, engine, telemetry, safe) ==
    IF safe.kind = "raise" THEN Caught(safe.error, input_checked(request, aacs, safe))
    ELSE IF safe.value.severity > g_aacs_threshold
    THEN [ret |-> EmptyResult, trace |-> input_checked(request, aacs, safe)]
    ELSE run_parsed(get_request_data(safe.value.obj, request), aacs, engine, telemetry,
                    input_checked(request, aacs, safe))

\* run(data): request is the body sent, aacs the classifier's answer to each
\* chunk text, engine and telemetry what the engine and the collector do
run(request, aacs, engine, telemetry) ==
    run_moderated(request, aacs, engine, telemetry,
                  get_safe_input(Str(request.raw), aacs))

-----------------------------------------------------------------------------
(* Notions the properties are stated with.                                 *)

Categories == {"hate_result", "self_harm_result", "sexual_result", "violence_result"}

\* the severities of the categories present in the responses
PresentSeverities(responses) ==
    {responses[p[1]][p[2]].severity :
        p \in {q \in (1..Len(responses)) \X Categories :
                   responses[q[1]][q[2]] # NoResult}}

SetMax(S) == CHOOSE m \in S : \A x \in S : x <= m

Range(q) == {q[k] : k \in 1..Len(q)}

Blank(text) == text = <<>> \/ \A i \in 1..Len(text) : IsSpace(text[i])

\* the role and the content of a turn of a dialog
RoleOf(msg) == subscript(msg, "role").value.s[1]
ContentOf(msg) == subscript(msg, "content").value.s

IsTurn(msg) ==
    /\ msg.t = "dict"
    /\ subscript(msg, "role").kind = "ok"
    /\ subscript(msg, "content").kind = "ok"
    /\ subscript(msg, "role").value.t = "str"
    /\ subscript(msg, "content").value.t = "str"

HasTag(msg) == \E k \in 1..4 : Contains(ContentOf(msg), SPECIAL_TAGS[k])

-----------------------------------------------------------------------------
(* The chunker on its own: every string up to MaxTextLen over a letter,    *)
(* the delimiter and a second letter, every chunk size up to MaxChunkN.    *)

ChunkAlphabet == {"a", "b", "."}

InitChunk ==
    /\ pc = "chunk"
    /\ g_aacs_client = NoClient
    /\ g_aacs_threshold = 2
    /\ task_type = TEXT_GENERATION
    /\ g_fmscorer = NoScorer
    /\ data \in [input : StringsUpTo(ChunkAlphabet, MaxTextLen),
                 chunking_n : 1..MaxChunkN,
                 delimiter : {"."}]
    /\ ret = NoRet
    /\ trace = <<>>

SplitBy ==
    /\ pc = "chunk"
    /\ pc' = "chunked"
    /\ ret' = [kind |-> "chunks",
               chunks |-> split_by(data.input, data.chunking_n, data.delimiter)]
    /\ UNCHANGED <<globals, data, trace>>

NextChunk == SplitBy

SpecChunk == InitChunk /\ [][NextChunk]_vars

\* C3: the concatenation, in order, of the chunks split_by produces equals
\* its input exactly.
ChunksReproduceInput ==
    pc = "chunked" => Concat(ret.chunks) = data.input

\* what split_by does preserve: the non-empty pieces, each with one delimiter
ChunksReproducePieces ==
    pc = "chunked" =>
        Concat(ret.chunks) = Concat(split_pieces(data.input, data.delimiter))

\* C4: every chunk split_by produces is at most chunking_n long, on the
\* greedy packing path and on the slicing path.
ChunksWithinMaxLen ==
    pc = "chunked" =>
        \A k \in 1..Len(ret.chunks) : Len(ret.chunks[k]) <= data.chunking_n

\* a run where one piece was sliced and later pieces were packed
ChunksWithinMaxLenWitness ==
    /\ pc = "chunked"
    /\ LET split == split_pieces(data.input, data.delimiter)
       IN  /\ \E k \in 1..Len(split) : Len(split[k]) > data.chunking_n
           /\ \E k \in 1..Len(split) : Len(split[k]) <= data.chunking_n
    /\ \E k \in 1..Len(ret.chunks) : Len(ret.chunks[k]) = data.chunking_n
    /\ Len(ret.chunks) >= 3

-----------------------------------------------------------------------------
(* The redactor on its own: iterate on scalars, on mappings, sequences and *)
(* frames of up to MaxWidth scalars, on containers that hold one such      *)
(* container, and on values wrapped in up to MaxNest one-element           *)
(* containers; the classifier answers each chunk text with one category at *)
(* any severity, or fails.                                                 *)

\* the values of the environment variable CONTENT_SAFETY_THRESHOLD
Thresholds == {-1, 0, 2}

Scalars ==
    {Str(<<>>), Str(<<" ">>), Str(<<"a">>), Str(<<"b">>), Str(<<".">>),
     Num(1), Bool(TRUE), PyNone}

ChildScalars == {Str(<<"a">>), Str(<<"b">>), Num(1)}

Keys == <<"k1", "k2", "k3", "k4">>

SeqsUpTo(S, n) == UNION {[1..m -> S] : m \in 0..n}

Containers(children) ==
    {List(c) : c \in children}
        \cup {Dict([k \in 1..Len(c) |-> Entry(Keys[k], c[k])]) : c \in children}

FlatContainers == Containers(SeqsUpTo(ChildScalars, MaxWidth))

NestedContainers ==
    Containers({<<c>> : c \in FlatContainers}
               \cup {<<c, x>> : c \in FlatContainers, x \in ChildScalars}
               \cup {<<x, c>> : c \in FlatContainers, x \in ChildScalars})

Frames ==
    {Frame("range", <<>>, <<<<x, y>>, <<y, x>>>>) : x, y \in ChildScalars}
        \cup {Frame("range", <<>>, <<>>), Frame("names", <<"0">>, <<<<Str(<<"a">>)>>>>)}

RECURSIVE Wrap(_, _)
Wrap(v, d) ==
    IF d = 0 THEN v
    ELSE IF d % 2 = 1 THEN List(<<Wrap(v, d - 1)>>)
    ELSE Dict(<<Entry("k1", Wrap(v, d - 1))>>)

RedactValues ==
    Scalars \cup FlatContainers \cup NestedContainers \cup Frames
        \cup {Wrap(v, d) : v \in Scalars \cup FlatContainers, d \in 1..MaxNest}

RedactChunks == {<<"a", ".">>, <<"b", ".">>}

RedactAnswers ==
    {r \in Responses : /\ r.hate_result # NoResult
                       /\ r.self_harm_result = NoResult
                       /\ r.sexual_result = NoResult
                       /\ r.violence_result = NoResult}
        \cup {ServiceError}

InitRedact ==
    /\ pc = "redact"
    /\ g_aacs_client = "client"
    /\ g_aacs_threshold \in Thresholds
    /\ task_type = TEXT_GENERATION
    /\ g_fmscorer = NoScorer
    /\ data \in [obj : RedactValues, aacs : [RedactChunks -> RedactAnswers]]
    /\ ret = NoRet
    /\ trace = <<>>

Iterate ==
    /\ pc = "redact"
    /\ pc' = "redacted"
    /\ ret' = iterate(data.obj, data.aacs)
    /\ UNCHANGED <<globals, data, trace>>

NextRedact == Iterate

SpecRedact == InitRedact /\ [][NextRedact]_vars

Composite(obj) == obj.t \in {"dict", "list", "frame"}

\* the strings inside a value, each once, in the order of its entries, items
\* and cells
RECURSIVE StringsIn(_)
StringsIn(obj) ==
    IF obj.t = "str" THEN <<obj.s>>
    ELSE IF Composite(obj)
         THEN Concat([k \in 1..Len(children_of(obj)) |-> StringsIn(children_of(obj)[k])])
         ELSE <<>>

\* the severity the classifier's answers give a string
AnalyzedSeverity(text, aacs) ==
    SetMax(PresentSeverities(classify(aacs, chunks_of(text))) \cup {0})

\* C5: the severity iterate returns for a mapping, a sequence or a frame is
\* the maximum of the severities it returns for the immediate children (0 for
\* an empty composite), the children come back position by position, every
\* string inside is sent to the classifier exactly once, in order, and the
\* traversal ends (by returning or by raising).
CompositeSeverityIsMaxOfChildren ==
    pc = "redacted" =>
        /\ ret.kind \in {"ok", "raise"}
        /\ Composite(data.obj) /\ ret.kind = "ok" =>
              LET children == children_of(data.obj)
                  sub == [k \in 1..Len(children) |-> iterate(children[k], data.aacs)]
              IN  /\ \A k \in 1..Len(children) : sub[k].kind = "ok"
                  /\ ret.value.severity =
                        SetMax({sub[k].value.severity : k \in 1..Len(children)} \cup {0})
                  /\ children_of(ret.value.obj) =
                        [k \in 1..Len(children) |-> sub[k].value.obj]
                  /\ ret.calls =
                        Concat([k \in 1..Len(StringsIn(data.obj)) |->
                                   chunks_of(StringsIn(data.obj)[k])])

\* a container two levels deep whose children have different severities, one
\* of them redacted
CompositeSeverityWitness ==
    /\ pc = "redacted"
    /\ ret.kind = "ok"
    /\ data.obj.t = "dict"
    /\ Len(data.obj.entries) = 2
    /\ data.obj.entries[1].value.t = "list"
    /\ Len(data.obj.entries[1].value.items) = 2
    /\ data.obj.entries[2].value = Str(<<"b">>)
    /\ ret.value.severity > g_aacs_threshold
    /\ ret.value.obj.entries[2].value = Str(<<"b">>)
    /\ ret.value.obj.entries[1].value.items[2] = Str(<<>>)
    /\ Len(ret.calls) = 2

\* C6: iterate returns a string whose analyzed severity is at most the
\* threshold unchanged, replaces a string whose severity is greater than the
\* threshold by the empty string, and returns the analyzed severity in both
\* cases; it returns any other scalar unchanged with severity 0 and without
\* a classifier call.
LeafRedaction ==
    pc = "redacted" =>
        /\ data.obj.t = "str" /\ ret.kind = "ok" =>
              /\ ret.value.severity = AnalyzedSeverity(data.obj.s, data.aacs)
              /\ ret.value.severity <= g_aacs_threshold => ret.value.obj = data.obj
              /\ ret.value.severity > g_aacs_threshold => ret.value.obj = Str(<<>>)
        /\ ~Composite(data.obj) /\ data.obj.t # "str" =>
              ret = Returned([obj |-> data.obj, severity |-> 0], <<>>)

\* a string at the threshold, kept
LeafRedactionWitness ==
    /\ pc = "redacted"
    /\ data.obj = Str(<<"a">>)
    /\ ret.kind = "ok"
    /\ ret.value.severity = g_aacs_threshold
    /\ ret.value.obj = data.obj
    /\ Len(ret.calls) = 1

-----------------------------------------------------------------------------
(* The scoring process: the module is loaded, init() runs once, then run   *)
(* is called request after request.                                        *)

\* the texts of request bodies, as the chunker sees them: a body that is a
\* JSON document has a character that is neither whitespace nor delimiter
JsonTexts == {<<"a">>, <<"a", ".", "b">>}
OtherTexts == {<<>>, <<" ">>, <<".">>, <<"b">>}

Body(input_data) == Dict(<<Entry("input_data", input_data)>>)
Input(input_string, parameters) ==
    Dict(<<Entry("input_string", input_string)>> \o parameters)

ParameterEntries ==
    {<<>>,
     <<Entry("parameters", Dict(<<>>))>>,
     <<Entry("parameters", Dict(<<Entry("max_gen_len", Num(50))>>))>>,
     <<Entry("parameters", Dict(<<Entry("max_new_tokens", Num(1)),
                                  Entry("max_gen_len", Num(2)),
                                  Entry("top_p", Num(0))>>))>>}

Prompts ==
    {List(<<>>), List(<<Str(<<"p">>)>>), List(<<Str(<<"p">>), Str(<<"q">>)>>)}

RunDialogs ==
    {<<Turn("user", <<"A">>)>>,
     <<Turn("system", <<"S">>), Turn("user", <<"A">>),
       Turn("assistant", <<"B">>), Turn("user", <<"C">>)>>,
     <<Turn("user", <<"A">>), Turn("assistant", <<"B">>)>>,
     <<Turn("assistant", <<"B">>)>>,
     <<>>,
     <<Str(<<"A">>)>>}
        \cup {<<Turn("user", SPECIAL_TAGS[k])>> : k \in 1..4}
        \cup {<<Turn("system", <<"x">> \o SPECIAL_TAGS[k]), Turn("user", <<"A">>)>> : k \in 1..4}
        \cup {<<Turn("user", <<"A">>), Turn("assistant", SPECIAL_TAGS[k] \o <<"y">>),
                Turn("user", <<"C">>)>> : k \in 1..4}
        \cup {<<Turn("tool", SPECIAL_TAGS[k]), Turn("user", <<"A">>)>> : k \in 1..4}

IllFormedBodies ==
    {List(<<>>),
     Dict(<<>>),
     Body(Str(<<"p">>)),
     Body(List(<<>>)),
     Body(Dict(<<>>)),
     Body(Input(Str(<<"p">>), <<>>)),
     Body(Input(List(<<Str(<<"p">>)>>), <<Entry("parameters", List(<<>>))>>)),
     Body(Input(List(<<Turn("user", TAG_INST)>>), <<Entry("parameters", PyNone)>>))}

Bodies ==
    IllFormedBodies
        \cup {Body(Input(q, ps)) : q \in Prompts, ps \in ParameterEntries}
        \cup {Body(Input(List(d), <<>>)) : d \in RunDialogs}

Requests ==
    [raw : JsonTexts, body : Bodies] \cup [raw : OtherTexts, body : {Unparseable}]

\* the chunk texts the classifier can be asked about during a run: those of
\* the request's text and of the engine's responses
ChunkSet(t) == {chunks_of(t)[k] : k \in 1..Len(chunks_of(t))}
RunChunks(request, engine) ==
    ChunkSet(request.raw)
        \cup (IF engine = EngineError THEN {}
              ELSE UNION {ChunkSet(engine.responses[k]) :
                             k \in 1..Len(engine.responses)})
Flagged(severity) ==
    [hate_result |-> [severity |-> severity], self_harm_result |-> NoResult,
     sexual_result |-> NoResult, violence_result |-> NoResult]
\* a classifier that is not configured is never asked: were it, it would flag
RunAnswers ==
    IF g_aacs_client = NoClient THEN {Flagged(MaxSeverity)}
    ELSE {Flagged(0), Flagged(2), Flagged(MaxSeverity), ServiceError}

\* what the engine answers the first, second, ... prompt with, or its failure
EngineResponses == {<<"a">>, <<"b">>, <<".">>}
EngineOutcomes(prompts) ==
    {EngineError}
        \cup {EngineResults(r) :
                r \in [1..prompts -> IF prompts <= 2 THEN EngineResponses ELSE {<<"a">>}]}

\* how many prompts a request makes run give the engine
prompts_given(req) ==
    IF req.kind = "ok" THEN Len(prompts_of(req.value.input_data)) ELSE 0
PromptCount(request) == prompts_given(get_request_data(Str(request.raw), request))

Init ==
    /\ pc = "loaded"
    /\ g_aacs_client = NoClient
    /\ g_aacs_threshold \in Thresholds
    /\ task_type = TEXT_GENERATION
    /\ g_fmscorer = NoScorer
    /\ data = [raw |-> <<>>, body |-> Unparseable]
    /\ ret = NoRet
    /\ trace = <<>>

\* init(): the classifier client is created, or its set-up fails and
\* moderation is bypassed; the task type is read from the model's flavor, an
\* unsupported one or a failing engine start makes init raise
init ==
    /\ pc = "loaded"
    /\ \E aacs_configured \in BOOLEAN,
          flavor \in {"none", TEXT_GENERATION, CHAT_COMPLETION, "fill-mask"},
          engine_starts \in BOOLEAN :
          /\ g_aacs_client' = IF aacs_configured THEN "client" ELSE NoClient
          /\ task_type' = IF flavor = "none" THEN task_type ELSE flavor
          /\ IF flavor # "fill-mask" /\ engine_starts
             THEN pc' = "serving" /\ g_fmscorer' = "FMScore"
             ELSE pc' = "failed" /\ g_fmscorer' = NoScorer
    /\ UNCHANGED <<g_aacs_threshold, data, ret, trace>>

\* a request arrives: run is called with its body
Receive ==
    /\ pc = "serving"
    /\ pc' = "called"
    /\ data' \in Requests
    /\ ret' = NoRet
    /\ trace' = <<>>
    /\ UNCHANGED globals

Run ==
    /\ pc = "called"
    /\ pc' = "serving"
    /\ \E engine \in EngineOutcomes(PromptCount(data)), telemetry \in BOOLEAN :
          \E aacs \in [RunChunks(data, engine) -> RunAnswers] :
              LET r == run(data, aacs, engine, telemetry)
              IN  /\ ret' = r.ret
                  /\ trace' = r.trace
    /\ UNCHANGED <<data, globals>>

Next == init \/ Receive \/ Run

Spec == Init /\ [][Next]_vars

\* a call of run has returned
Completed == pc = "serving" /\ ret # NoRet

Events(op) == {k \in 1..Len(trace) : trace[k].op = op}
EngineCalled == Events("g_fmscorer.run") # {}
ClassifierCalled == Events("g_aacs_client.analyze_text") # {}

\* the one get_safe_input of the call, whether it returned, and the severity
\* the classifier's answers before it amount to
SafeInput == trace[CHOOSE k \in Events("get_safe_input") : TRUE]
InputReturned == "severity" \in DOMAIN SafeInput
InputAnswers ==
    LET at == CHOOSE k \in Events("get_safe_input") : TRUE
    IN  [k \in 1..(at - 1) |-> trace[k].answer]
InputSeverity == SetMax(PresentSeverities(InputAnswers) \cup {0})

\* the failures of collaborators and helpers during the call
Failures ==
    {k \in 1..Len(trace) :
        \/ "raised" \in DOMAIN trace[k]
        \/ "outcome" \in DOMAIN trace[k] /\ trace[k].outcome = "raise"}

\* C1: when a classifier is configured and the input's severity is greater
\* than the threshold, run returns {} and the engine is not invoked; the
\* engine is invoked only when the input's severity is at most the threshold
\* or there is no classifier.
UnsafeInputShortCircuits ==
    Completed =>
        /\ g_aacs_client # NoClient /\ InputReturned
              /\ InputSeverity > g_aacs_threshold
              => ret = EmptyResult /\ ~EngineCalled
        /\ EngineCalled =>
              /\ InputReturned
              /\ g_aacs_client = NoClient \/ InputSeverity <= g_aacs_threshold

\* a well-formed request whose text the classifier puts above a threshold of 2
UnsafeInputWitness ==
    /\ Completed
    /\ g_aacs_client # NoClient
    /\ g_aacs_threshold = 2
    /\ data.body \in {Body(Input(q, <<>>)) : q \in Prompts}
    /\ InputReturned
    /\ InputSeverity > 2
    /\ ret = EmptyResult
    /\ Len(trace) = 2

\* every failure of a call ends in the error payload
FailuresAreCaught ==
    Completed =>
        /\ ret.kind \in {"empty", "error", "response"}
        /\ Failures # {} <=> ret.kind = "error"
        /\ ret.kind = "error" =>
              /\ DOMAIN ret = {"kind", "error", "exception"}
              /\ ret.error = "Error in processing request"
              /\ ret.exception # <<>>
              /\ \A k \in Failures :
                    "raised" \in DOMAIN trace[k] => ret.exception = trace[k].raised

\* C2: run never propagates an error: a failure of input moderation, request
\* parsing, chat formatting, the engine call, telemetry or output moderation
\* ends in run returning the error payload with "error" and "exception"; and
\* run leaves the classifier client, the threshold, the task type and the
\* scorer as they were.
RunCatchesAndKeepsConfiguration ==
    /\ []FailuresAreCaught
    /\ [][pc # "loaded" => UNCHANGED globals]_vars

\* a call in which the engine failed, answered by the error payload
RunCatchesWitness ==
    /\ Completed
    /\ ret = ErrorPayload(<<"engine">>)
    /\ \E k \in Events("g_fmscorer.run") : trace[k].outcome = "raise"
    /\ g_aacs_client # NoClient
    /\ task_type = CHAT_COMPLETION

HasDialog(request) ==
    /\ request.body # Unparseable
    /\ request.body.t = "dict"
    /\ HasKey(request.body, "input_data")
    /\ subscript(request.body, "input_data").value.t = "dict"
    /\ HasKey(subscript(request.body, "input_data").value, "input_string")
    /\ subscript(subscript(request.body, "input_data").value, "input_string").value.t
          = "list"
    /\ \A m \in Range(subscript(subscript(request.body, "input_data").value,
                                  "input_string").value.items) : IsTurn(m)
DialogOf(request) ==
    subscript(subscript(request.body, "input_data").value, "input_string").value.items
ParametersOf(request) ==
    subscript(subscript(request.body, "input_data").value, "parameters")

TaggedChatRequest ==
    /\ Completed
    /\ task_type = CHAT_COMPLETION
    /\ HasDialog(data)
    /\ \E m \in Range(DialogOf(data)) : HasTag(m)

UnsafeContentError ==
    /\ ret.kind = "error"
    /\ UNSAFE_ERROR[1] \in Range(ret.exception)
    /\ \A k \in Events("get_request_data") : "raised" \in DOMAIN trace[k]
    /\ ~EngineCalled

\* C10: in the chat-completion task, a request with a reserved tag in the
\* content of any turn fails with the unsafe-content error before a prompt is
\* built: run returns the error payload carrying that error text and the
\* engine is not invoked.
TaggedTurnIsRejected ==
    TaggedChatRequest => UnsafeContentError

\* what run does for such a request: the engine is never invoked; the error
\* payload carries the unsafe-content text when input moderation, which
\* comes first, returned a severity at most the threshold and the parameters
\* of the request are absent or a mapping.
TaggedTurnIsRejectedAfterModeration ==
    TaggedChatRequest =>
        /\ ~EngineCalled
        /\ /\ InputReturned
           /\ SafeInput.severity <= g_aacs_threshold
           /\ ParametersOf(data).kind = "ok" => ParametersOf(data).value.t = "dict"
           => UnsafeContentError

\* a closing tag in an assistant turn, the request having passed moderation
TaggedTurnWitness ==
    /\ TaggedChatRequest
    /\ g_aacs_client # NoClient
    /\ ClassifierCalled
    /\ Len(DialogOf(data)) = 3
    /\ ContentOf(DialogOf(data)[2]) = TAG_SYS_END \o <<"y">>
    /\ UnsafeContentError
    /\ Len(trace) = 3

\* the engine is called at most once, after the input was moderated, and a
\* response is what output moderation gave for what the engine generated
EngineOnceThenModerated ==
    /\ Cardinality(Events("g_fmscorer.run")) <= 1
    /\ \A e \in Events("g_fmscorer.run") : \E i \in Events("get_safe_input") : i < e
    /\ ret.kind = "response" =>
          \E k \in Events("get_safe_response"), e \in Events("g_fmscorer.run") :
              /\ e < k
              /\ k = Len(trace)
              /\ "result" \in DOMAIN trace[k]
              /\ ret = Response(trace[k].result)

\* C13: in every run the steps occur in the order request normalizer, input
\* moderation, engine call, output moderation, response: the request is
\* parsed and validated before input moderation, the engine is called at
\* most once, and a response is returned only after output moderation.
PipelineOrder ==
    Completed =>
        /\ \A i \in Events("get_safe_input") :
              \E p \in Events("get_request_data") : p < i
        /\ EngineOnceThenModerated

\* the order of the steps as run has them: input moderation of the request
\* text first, the request parsed only when moderation let it through
PipelineOrderModerationFirst ==
    Completed =>
        /\ Events("get_safe_input") # {}
        /\ \A p \in Events("get_request_data") :
              \E i \in Events("get_safe_input") :
                  /\ i < p
                  /\ "severity" \in DOMAIN trace[i]
                  /\ trace[i].severity <= g_aacs_threshold
        /\ \A e \in Events("g_fmscorer.run") :
              \E p \in Events("get_request_data") : p < e /\ "query" \in DOMAIN trace[p]
        /\ EngineOnceThenModerated

\* a request whose text is no JSON document, rated above the threshold: run
\* answers {} and the request is never parsed
ModeratedBeforeParsed ==
    /\ Completed
    /\ data.body = Unparseable
    /\ g_aacs_client # NoClient
    /\ ret = EmptyResult
    /\ Events("get_request_data") = {}

-----------------------------------------------------------------------------
(* The chat formatting on its own: the well-formed dialogs (an optional    *)
(* system turn, up to MaxPairs (user, assistant) pairs, a final user       *)
(* turn), the dialogs of up to MaxTurns turns of any roles, dialogs with a *)
(* reserved tag or nearly one in a turn, and lists that are no dialogs.    *)

ChatContents == {<<"A">>, <<"B">>, <<" ", "D", "\n">>}
FinalContents == ChatContents \cup {<<"C">>}
SystemContents == {<<>>, <<"S">>, <<" ", "S", " ">>}

WellFormedDialogs ==
    UNION {{sys \o Concat([k \in 1..n |-> <<Turn("user", us[k]), Turn("assistant", as[k])>>])
                \o <<Turn("user", final)>> :
               sys \in {<<>>} \cup {<<Turn("system", c)>> : c \in SystemContents},
               us \in [1..n -> ChatContents],
               as \in [1..n -> ChatContents],
               final \in FinalContents} : n \in 0..MaxPairs}

AnyDialogs ==
    SeqsUpTo({Turn(role, c) : role \in {"system", "user", "assistant"},
                              c \in {<<"A">>, <<" ", "D", "\n">>}}, MaxTurns)

TaggedContents ==
    {SPECIAL_TAGS[k] : k \in 1..4}
        \cup {<<"x">> \o SPECIAL_TAGS[k] \o <<" ">> : k \in 1..4}
        \cup {<<"[", "I", "N", "S", "T">>, <<"<", "<", "S", "Y", "S", ">">>, <<"[", " ", "/", "I", "N", "S", "T", "]">>}

TaggedDialogs ==
    UNION {{<<Turn("user", t)>>,
            <<Turn("system", t), Turn("user", <<"A">>)>>,
            <<Turn("user", <<"A">>), Turn("assistant", t), Turn("user", <<"B">>)>>,
            <<Turn("user", t), Turn("assistant", <<"B">>), Turn("user", <<"C">>)>>,
            <<Turn("tool", t), Turn("user", <<"A">>)>>} : t \in TaggedContents}

NoDialogs ==
    {<<Str(<<"A">>)>>,
     <<Dict(<<Entry("role", Str(<<"user">>))>>)>>,
     <<Dict(<<Entry("content", Str(<<"A">>))>>)>>,
     <<Turn("user", <<"A">>), Dict(<<Entry("role", Str(<<"user">>)), Entry("content", PyNone)>>)>>,
     <<Turn("user", TAG_INST), PyNone>>}

ChatDialogs == WellFormedDialogs \cup AnyDialogs \cup TaggedDialogs \cup NoDialogs

InitChat ==
    /\ pc = "chat"
    /\ g_aacs_client = NoClient
    /\ g_aacs_threshold = 2
    /\ task_type = CHAT_COMPLETION
    /\ g_fmscorer = NoScorer
    /\ data \in [dialog : ChatDialogs]
    /\ ret = NoRet
    /\ trace = <<>>

FormatChat ==
    /\ pc = "chat"
    /\ pc' = "formatted"
    /\ ret' = get_processed_input_data_for_chat_completion(data.dialog)
    /\ UNCHANGED <<globals, data, trace>>

NextChat == FormatChat

SpecChat == InitChat /\ [][NextChat]_vars

\* an optional leading system turn, (user, assistant) pairs, a final user
\* turn, no reserved tag
WellFormed(dialog) ==
    /\ Len(dialog) >= 1
    /\ \A i \in 1..Len(dialog) : IsTurn(dialog[i]) /\ ~HasTag(dialog[i])
    /\ LET off == IF RoleOf(dialog[1]) = "system" THEN 1 ELSE 0
       IN  /\ (Len(dialog) - off) % 2 = 1
           /\ \A i \in (off + 1)..Len(dialog) :
                 RoleOf(dialog[i]) = IF (i - off) % 2 = 1 THEN "user" ELSE "assistant"

\* text without its leading and trailing whitespace
RECURSIVE Stripped(_)
Stripped(text) ==
    IF text = <<>> THEN text
    ELSE IF Head(text) \in {" ", "\n", "\t"} THEN Stripped(Tail(text))
    ELSE IF text[Len(text)] \in {" ", "\n", "\t"}
         THEN Stripped(SubSeq(text, 1, Len(text) - 1))
         ELSE text

\* the prompt of a well-formed dialog
ExpectedPrompt(dialog) ==
    LET off == IF RoleOf(dialog[1]) = "system" THEN 1 ELSE 0
        system == IF off = 1 THEN ContentOf(dialog[1]) ELSE <<>>
        pairs == (Len(dialog) - off - 1) \div 2
        user(k) == ContentOf(dialog[off + 2 * k - 1])
        assistant(k) == ContentOf(dialog[off + 2 * k])
        final == ContentOf(dialog[Len(dialog)])
    IN  (IF system # <<>>
         THEN <<"<", "s", ">", "[", "I", "N", "S", "T", "]", " ", "<", "<", "S", "Y", "S", ">", ">", "\n">> \o system \o <<"\n", "<", "<", "/", "S", "Y", "S", ">", ">", "\n", "\n">>
         ELSE <<"<", "s", ">", "[", "I", "N", "S", "T", "]", " ">>)
        \o Concat([k \in 1..pairs |->
                     (IF k = 1 THEN user(k) ELSE Stripped(user(k)))
                        \o <<" ", "[", "/", "I", "N", "S", "T", "]", " ">> \o Stripped(assistant(k))
                        \o <<" ", "<", "/", "s", ">", "<", "s", ">", "[", "I", "N", "S", "T", "]", " ">>])
        \o (IF pairs >= 1 THEN Stripped(final) ELSE final)
        \o <<" ", "[", "/", "I", "N", "S", "T", "]">>

EndsWithoutUser(dialog) ==
    /\ \A k \in 1..Len(dialog) : IsTurn(dialog[k])
    /\ \A k \in 1..Len(dialog) : ~HasTag(dialog[k])
    /\ dialog = <<>> \/ RoleOf(dialog[Len(dialog)]) # "user"

\* C15: chat formatting produces a prompt only for a dialog whose last turn
\* is a user turn; for a dialog whose last turn is not a user turn (one that
\* ends in an assistant turn, one without user turns) no prompt is produced,
\* the formatting fails with an error instead.
PromptOnlyForFinalUserTurn ==
    pc = "formatted" /\ EndsWithoutUser(data.dialog) => ret.kind = "raise"

\* what the formatting does for such a dialog: when an assistant turn
\* answers an earlier user turn it fails on None.strip(), otherwise it
\* produces a prompt for the text "None"
PromptForNoneWithoutFinalUserTurn ==
    pc = "formatted" /\ EndsWithoutUser(data.dialog) =>
        \/ /\ ret.kind = "raise"
           /\ ret.error = <<"AttributeError">>
           /\ \E k, j \in 1..Len(data.dialog) :
                 /\ k < j
                 /\ RoleOf(data.dialog[k]) = "user"
                 /\ RoleOf(data.dialog[j]) = "assistant"
                 /\ \A h \in (k + 1)..(j - 1) : RoleOf(data.dialog[h]) # "assistant"
        \/ /\ ret.kind = "ok"
           /\ Len(ret.value) >= 12
           /\ SubSeq(ret.value, Len(ret.value) - 11, Len(ret.value))
                  = <<"N", "o", "n", "e", " ">> \o TAG_INST_END

-----------------------------------------------------------------------------
(* The severity analyzer on its own: analyze_response on every response,   *)
(* analyze_text on every short text and on texts longer than one chunk.    *)

Rep(c, n) == [i \in 1..n |-> c]

\* texts of more than CHUNKING_N characters: one over-long piece, two pieces
\* that do not fit one chunk, and an over-long piece after a short one
LongTexts ==
    { Rep("a", CHUNKING_N + 1),
      Rep("a", 600) \o <<".">> \o Rep("b", 600),
      <<"b", ".">> \o Rep("a", CHUNKING_N) }

AnalyzeTexts == StringsUpTo({"a", ".", " "}, MaxAnalyzeLen) \cup LongTexts

\* the answers the classifier gives to the calls of one analyze_text: for a
\* text of one chunk any response or a failure; for a text of several chunks,
\* per chunk, one category at any severity, another at the largest, no
\* category at all, or a failure
ChunkAnswers ==
    {r \in Responses :
        /\ r.self_harm_result = NoResult
        /\ r.sexual_result = NoResult
        /\ \/ r.violence_result = NoResult
           \/ r.hate_result = NoResult /\ r.violence_result.severity = MaxSeverity}
        \cup {ServiceError}

TextAnswers(calls) ==
    [1..calls -> IF calls <= 1 THEN Responses \cup {ServiceError} ELSE ChunkAnswers]

InitAnalyze ==
    /\ pc = "text"
    /\ g_aacs_client = "client"
    /\ g_aacs_threshold = 2
    /\ task_type = TEXT_GENERATION
    /\ g_fmscorer = NoScorer
    /\ data \in [text : AnalyzeTexts]
    /\ ret = NoRet
    /\ trace = <<>>

AnalyzeText ==
    /\ pc = "text"
    /\ pc' = "text_analyzed"
    /\ \E answers \in TextAnswers(analyze_text_calls(data.text)) :
          /\ ret' = analyze_text(data.text, answers)
          /\ trace' = answers
    /\ UNCHANGED <<globals, data>>

NextAnalyze == AnalyzeText

SpecAnalyze == InitAnalyze /\ [][NextAnalyze]_vars

\* C8: analyze_text returns 0 without a classifier call for empty or
\* whitespace-only text; for any other text, when no classifier call fails,
\* it calls the classifier once per chunk of split_by(text, 1000, ".") and
\* returns the maximum over all chunks and all present categories.
AnalyzeTextMaxOverChunks ==
    pc = "text_analyzed" =>
        IF Blank(data.text) THEN ret = Returned(0, <<>>)
        ELSE (\A k \in 1..Len(trace) : trace[k] # ServiceError) =>
                /\ ret.kind = "ok"
                /\ ret.calls = split_by(data.text, CHUNKING_N, DELIMITER)
                /\ Len(ret.calls) = Len(trace)
                /\ ret.value = SetMax(PresentSeverities(trace) \cup {0})

\* the same, for the texts the chunker produces at least one chunk for
AnalyzeTextMaxOverSomeChunks ==
    /\ pc = "text_analyzed"
    /\ analyze_text_calls(data.text) > 0
    /\ \A k \in 1..Len(trace) : trace[k] # ServiceError
    =>      /\ ret.kind = "ok"
            /\ ret.calls = split_by(data.text, CHUNKING_N, DELIMITER)
            /\ ret.value = SetMax(PresentSeverities(trace) \cup {0})

\* analyze_text returns a severity whenever no classifier call fails
AnalyzeTextReturns ==
    /\ pc = "text_analyzed"
    /\ \A k \in 1..Len(trace) : trace[k] # ServiceError
    =>      /\ ret.kind = "ok"
            /\ ret.value \in Nat

\* no chunk sent to the classifier is the empty string
NoEmptyChunk ==
    pc = "text_analyzed" => \A k \in 1..Len(ret.calls) : ret.calls[k] # <<>>

\* C14: for every text, text made only of delimiters included, analyze_text
\* returns a non-negative severity and does not fail (no classifier call
\* failing), and the classifier is never called with an empty chunk, an
\* over-long piece arriving while the buffer is empty included.
AnalyzeTextTotal == AnalyzeTextReturns /\ NoEmptyChunk

-----------------------------------------------------------------------------
(* The request normalizer on its own: get_request_data on every request    *)
(* body of the process, under either task.                                 *)

InitRequest ==
    /\ pc = "request"
    /\ g_aacs_client = NoClient
    /\ g_aacs_threshold = 2
    /\ task_type \in {TEXT_GENERATION, CHAT_COMPLETION}
    /\ g_fmscorer = NoScorer
    /\ data \in Requests
    /\ ret = NoRet
    /\ trace = <<>>

GetRequestData ==
    /\ pc = "request"
    /\ pc' = "parsed"
    /\ ret' = get_request_data(Str(data.raw), data)
    /\ UNCHANGED <<globals, data, trace>>

NextRequest == GetRequestData

SpecRequest == InitRequest /\ [][NextRequest]_vars

\* the value of a key of a mapping, for a mapping that has the key
ValueOf(obj, key) ==
    obj.entries[CHOOSE k \in 1..Len(obj.entries) : obj.entries[k].key = key].value
IsMapping(v) == v.t = "dict"
Has(obj, key) == \E k \in 1..Len(obj.entries) : obj.entries[k].key = key

\* a body with an input_data object
HasInputs(body) ==
    /\ body # Unparseable
    /\ IsMapping(body)
    /\ Has(body, "input_data")
    /\ IsMapping(ValueOf(body, "input_data"))

\* a body the normalizer has to refuse: not parseable, input_data missing or
\* no object, input_string missing or no sequence, parameters no mapping
InvalidBody(body) ==
    \/ ~HasInputs(body)
    \/ ~Has(ValueOf(body, "input_data"), "input_string")
    \/ ValueOf(ValueOf(body, "input_data"), "input_string").t # "list"
    \/ /\ Has(ValueOf(body, "input_data"), "parameters")
       /\ ~IsMapping(ValueOf(ValueOf(body, "input_data"), "parameters"))

\* the error carries the expected-schema text and the text of the exception
IsValidationError(r) ==
    /\ r.kind = "raise"
    /\ Len(r.error) > 3
    /\ SubSeq(r.error, 1, 3) = <<"error", EXPECTED_FORMAT, "exception">>

\* C11: get_request_data fails with a validation error that carries the
\* expected-schema text and the original exception text, and returns no
\* (query, params) pair, for every body that is not parseable, whose
\* input_data is missing or not an object, whose input_string is missing or
\* not a sequence, or whose parameters is not a mapping; for every
\* well-formed text-generation body it returns input_string unchanged and
\* parameters, the empty mapping when there are none.
RequestDataValidated ==
    pc = "parsed" =>
        /\ InvalidBody(data.body) => IsValidationError(ret)
        /\ data.body = Unparseable => ret.error[4] = "JSONDecodeError"
        /\ ~InvalidBody(data.body) /\ task_type = TEXT_GENERATION =>
              /\ ret.kind = "ok"
              /\ ret.value.input_data
                     = ValueOf(ValueOf(data.body, "input_data"), "input_string")
              /\ ret.value.params
                     = IF Has(ValueOf(data.body, "input_data"), "parameters")
                       THEN ValueOf(ValueOf(data.body, "input_data"), "parameters")
                       ELSE Dict(<<>>)

\* a body whose parameters is a list is refused with that exception text
RequestDataRefusedWitness ==
    /\ pc = "parsed"
    /\ HasInputs(data.body)
    /\ Has(ValueOf(data.body, "input_data"), "parameters")
    /\ ValueOf(ValueOf(data.body, "input_data"), "parameters") = List(<<>>)
    /\ IsValidationError(ret)
    /\ ret.error[4] = "parameters is not a dict"

-----------------------------------------------------------------------------
(* The parameter normalization on its own: get_generator_params on every   *)
(* mapping of up to MaxParams of four keys, in any order.                  *)

ParamKeys == {"max_gen_len", "max_new_tokens", "top_p", "temperature"}
ParamValues == {Num(1), Num(2)}

ParamMappings ==
    {Dict(e) : e \in {q \in SeqsUpTo([key : ParamKeys, value : ParamValues], MaxParams) :
                          \A i, j \in 1..Len(q) : q[i].key = q[j].key => i = j}}

InitParams ==
    /\ pc = "params"
    /\ g_aacs_client = NoClient
    /\ g_aacs_threshold = 2
    /\ task_type = TEXT_GENERATION
    /\ g_fmscorer = NoScorer
    /\ data \in [params : ParamMappings]
    /\ ret = NoRet
    /\ trace = <<>>

GetGeneratorParams ==
    /\ pc = "params"
    /\ pc' = "normalized"
    /\ ret' = Returned(get_generator_params(data.params), <<>>)
    /\ UNCHANGED <<globals, data, trace>>

NextParams == GetGeneratorParams

SpecParams == InitParams /\ [][NextParams]_vars

KeysOf(obj) == {obj.entries[k].key : k \in 1..Len(obj.entries)}

\* C12: the result of get_generator_params has no key max_gen_len; when the
\* argument has max_gen_len, the result's max_new_tokens is the argument's
\* max_gen_len value, also when the argument had a max_new_tokens; every
\* other key of the argument is in the result with its value; a mapping
\* without max_gen_len comes back with equal contents.
GeneratorParamsNormalized ==
    pc = "normalized" =>
        /\ "max_gen_len" \notin KeysOf(ret.value)
        /\ Cardinality(KeysOf(ret.value)) = Len(ret.value.entries)
        /\ KeysOf(ret.value) \subseteq KeysOf(data.params) \cup {"max_new_tokens"}
        /\ "max_gen_len" \in KeysOf(data.params) =>
              /\ "max_new_tokens" \in KeysOf(ret.value)
              /\ ValueOf(ret.value, "max_new_tokens") = ValueOf(data.params, "max_gen_len")
        /\ \A key \in KeysOf(data.params) \ {"max_gen_len", "max_new_tokens"} :
              /\ key \in KeysOf(ret.value)
              /\ ValueOf(ret.value, key) = ValueOf(data.params, key)
        /\ "max_gen_len" \notin KeysOf(data.params) =>
              Range(ret.value.entries) = Range(data.params.entries)

\* max_gen_len 2 replaces an existing max_new_tokens 1, top_p is kept
GeneratorParamsWitness ==
    /\ pc = "normalized"
    /\ Len(data.params.entries) = 3
    /\ KeysOf(data.params) = {"max_gen_len", "max_new_tokens", "top_p"}
    /\ ValueOf(data.params, "max_new_tokens") = Num(1)
    /\ ValueOf(data.params, "max_gen_len") = Num(2)
    /\ KeysOf(ret.value) = {"max_new_tokens", "top_p"}
    /\ ValueOf(ret.value, "max_new_tokens") = Num(2)

====
